---- MODULE Spec2Model ----
(***************************************************************************)
(* Model of scripts/micro_benchmarks.py: argument validation               *)
(* (__process_arguments / add_arguments), the stage sequence of __main     *)
(* and build() (clean, restore, build, run per framework), the assembly of *)
(* the BenchmarkDotNet argument group, and the exit code of __main.        *)
(*                                                                         *)
(* Text values that the code inspects character by character (the build    *)
(* configuration) are sequences of one-character strings; every other      *)
(* text value is an opaque string.                                         *)
(***************************************************************************)
EXTENDS Integers, Sequences, FiniteSets, TLC

VARIABLES
    argv,          \* the command line, one field per option (never changes)
    platform,      \* sys.platform of the host (never changes)
    pc,            \* position of __main
    args,          \* <<>> before parse_args returned, <<namespace>> after
    k,             \* index into binary_folders of the clean loop of build()
    i,             \* index into frameworks of the run loop of __main
    calls,         \* every collaborator invocation made so far, in order
    exc,           \* the exception that left the try block, "None" if none
    exit_status,   \* <<>> or <<code>> of the SystemExit raised by argparse
    parser_error,  \* what argparse reported before exiting
    errors,        \* messages sent to getLogger().error, in order
    ret            \* <<>> until __main returned, then <<exit code>>

vars == <<argv, platform, pc, args, k, i, calls, exc, exit_status,
          parser_error, errors, ret>>

(***************************************************************************)
(* Bounds of the explored command lines.                                   *)
(***************************************************************************)
MaxFrameworks == 3
MaxFilters == 2
MaxBdnTokens == 2

None == "None"

Min(S) == CHOOSE x \in S : \A y \in S : x <= y

ToSet(s) == {s[n] : n \in 1..Len(s)}

SeqsUpTo(S, n) == UNION {[1..m -> S] : m \in 0..n}

(***************************************************************************)
(* Characters and str.casefold (ASCII letters).                            *)
(***************************************************************************)
UpperChars == <<"A", "B", "D", "E", "G", "I", "L", "R", "S", "T", "U">>
LowerChars == <<"a", "b", "d", "e", "g", "i", "l", "r", "s", "t", "u">>

casefold_char(c) ==
    IF \E n \in 1..Len(UpperChars) : UpperChars[n] = c
    THEN LowerChars[CHOOSE n \in 1..Len(UpperChars) : UpperChars[n] = c]
    ELSE c

upper_char(c) ==
    IF \E n \in 1..Len(LowerChars) : LowerChars[n] = c
    THEN UpperChars[CHOOSE n \in 1..Len(LowerChars) : LowerChars[n] = c]
    ELSE c

casefold(s) == [n \in 1..Len(s) |-> casefold_char(s[n])]

Release == <<"R", "e", "l", "e", "a", "s", "e">>
Debug == <<"D", "e", "b", "u", "g">>

get_supported_configurations == <<Release, Debug>>

dotnet_configuration_exact(configuration) ==
    LET cfgs == get_supported_configurations
        hits == {n \in 1..Len(cfgs) : cfgs[n] = configuration}
    IN  IF hits # {}
        THEN [ok |-> TRUE, value |-> cfgs[Min(hits)]]
        ELSE [ok |-> FALSE, value |-> configuration]

dotnet_configuration(configuration) ==
    LET cfgs == get_supported_configurations
        hits == {n \in 1..Len(cfgs) :
                    casefold(cfgs[n]) = casefold(configuration)}
    IN  IF hits # {}
        THEN [ok |-> TRUE, value |-> cfgs[Min(hits)]]
        ELSE [ok |-> FALSE, value |-> configuration]

(***************************************************************************)
(* -c/--configuration: the default is a string, so argparse passes it      *)
(* through type= as well; choices= is tested on the converted value.       *)
(***************************************************************************)
configuration_option(given) ==
    LET raw == IF given = <<>> THEN get_supported_configurations[1]
               ELSE given[1]
        conv == dotnet_configuration(raw)
    IN  IF ~conv.ok
        THEN [ok |-> FALSE, value |-> conv.value,
              message |-> "Unknown configuration"]
        ELSE IF conv.value \notin ToSet(get_supported_configurations)
        THEN [ok |-> FALSE, value |-> conv.value,
              message |-> "invalid choice"]
        ELSE [ok |-> TRUE, value |-> conv.value, message |-> None]

(***************************************************************************)
(* -f/--frameworks.                                                        *)
(***************************************************************************)
get_framework_channel_map_keys ==
    <<"netcoreapp3.0", "netcoreapp2.2", "netcoreapp2.1", "netcoreapp2.0">>

get_supported_target_frameworks(plat) ==
    get_framework_channel_map_keys \o
        (IF plat = "win32" THEN <<"net461">> ELSE <<>>)

\* list(set(values)): the distinct values in whatever order the hash of the
\* run puts them (str hashes are randomised per process).
Orderings(S) ==
    {p \in [1..Cardinality(S) -> S] :
        \A m, n \in 1..Cardinality(S) : m # n => p[m] # p[n]}

list_set(values) == Orderings(ToSet(values))

TargetFrameworkAction_call_keep_duplicates(values, plat) ==
    LET supported == ToSet(get_supported_target_frameworks(plat))
        wrong_choices == SelectSeq(values, LAMBDA v : v \notin supported)
    IN  IF wrong_choices # <<>>
        THEN {[ok |-> FALSE, value |-> <<>>,
               message |-> "Invalid choice(s)", listed |-> wrong_choices]}
        ELSE {[ok |-> TRUE, value |-> values,
               message |-> None, listed |-> <<>>]}

\* TargetFrameworkAction.__call__ (values is never empty under nargs='+').
TargetFrameworkAction_call(values, plat) ==
    LET supported == ToSet(get_supported_target_frameworks(plat))
        wrong_choices == SelectSeq(values, LAMBDA v : v \notin supported)
    IN  IF wrong_choices # <<>>
        THEN {[ok |-> FALSE, value |-> <<>>,
               message |-> "Invalid choice(s)", listed |-> wrong_choices]}
        ELSE {[ok |-> TRUE, value |-> p,
               message |-> None, listed |-> <<>>] : p \in list_set(values)}

\* choices=supported_target_frameworks: argparse tests every value against
\* choices before it calls the action, and stops at the first that is not
\* among them ("invalid choice: 'v' (choose from ...)").
frameworks_option(values, plat) ==
    LET choices == ToSet(get_supported_target_frameworks(plat))
        bad == {n \in 1..Len(values) : values[n] \notin choices}
    IN  IF bad # {}
        THEN {[ok |-> FALSE, value |-> <<>>,
               message |-> "invalid choice",
               listed |-> <<values[Min(bad)]>>]}
        ELSE TargetFrameworkAction_call(values, plat)

(***************************************************************************)
(* --incremental, --category, --corerun, --cli.                            *)
(***************************************************************************)
incremental_option(given) ==
    IF given = None THEN [ok |-> TRUE, value |-> "yes"]
    ELSE IF given \in {"yes", "no"} THEN [ok |-> TRUE, value |-> given]
    ELSE [ok |-> FALSE, value |-> given]

\* str.lower on the category spellings the model supplies.
str_lower(s) ==
    CASE s = "CoreCLR" -> "coreclr"
      [] s = "COREFX" -> "corefx"
      [] OTHER -> s

category_option(given) ==
    IF given = None THEN [ok |-> TRUE, value |-> None]
    ELSE IF str_lower(given) \in {"coreclr", "corefx"}
    THEN [ok |-> TRUE, value |-> str_lower(given)]
    ELSE [ok |-> FALSE, value |-> str_lower(given)]

\* The file system of the host: the regular files that exist, and
\* path.abspath with the working directory /cwd.
Files == {"/cwd/corerun", "/usr/bin/dotnet"}

isfile(p) == p \in Files

abspath(p) ==
    CASE p = "corerun" -> "/cwd/corerun"
      [] p = "nofile" -> "/cwd/nofile"
      [] OTHER -> p

valid_file_path_unchecked(file_path) ==
    [ok |-> TRUE, value |-> abspath(file_path)]

valid_file_path(file_path) ==
    IF ~isfile(abspath(file_path))
    THEN [ok |-> FALSE, value |-> abspath(file_path)]
    ELSE [ok |-> TRUE, value |-> abspath(file_path)]

file_option(given) ==
    IF given = None THEN [ok |-> TRUE, value |-> None]
    ELSE valid_file_path(given)

(***************************************************************************)
(* The command lines explored.  help is where -h stands on the command     *)
(* line relative to the other options; configuration, filter and           *)
(* bdn_arguments are <<>> when the option is omitted and <<value>> when    *)
(* it is given; frameworks is <<>> when -f is omitted.  bdn_arguments      *)
(* holds the token list __get_bdn_arguments returned.                      *)
(***************************************************************************)
HelpPositions == {"absent", "first", "last"}

FrameworkNames == {"netcoreapp3.0", "netcoreapp2.2", "net461", "bogus1",
                   "bogus2"}

FrameworkInputs == SeqsUpTo(FrameworkNames, MaxFrameworks)

CaseVariants(w) ==
    {[n \in 1..Len(w) |-> IF n \in U THEN upper_char(w[n])
                          ELSE casefold_char(w[n])] :
        U \in SUBSET (1..Len(w))}

ConfigurationWords ==
    {Release, Debug, <<"R", "e", "l", "e", "a", "s">>,
     <<"D", "e", "b", "u", "g", "s">>, <<"R", "e", "t", "a", "i", "l">>}

ConfigurationInputs ==
    {<<>>} \cup {<<c>> : c \in UNION {CaseVariants(w) : w \in ConfigurationWords}}

IncrementalInputs == {None, "yes", "no", "maybe"}

CategoryInputs == {None, "coreclr", "corefx", "CoreCLR", "COREFX", "bogus"}

FileInputs == {None, "corerun", "/usr/bin/dotnet", "nofile", "/cwd"}

FilterPatterns == {"*Sort*", "*Hash*"}

FilterInputs ==
    {<<>>} \cup {<<f>> : f \in SeqsUpTo(FilterPatterns, MaxFilters) \ {<<>>}}

BdnTokens == {"--iterations", "5"}

BdnInputs == {<<>>} \cup {<<t>> : t \in SeqsUpTo(BdnTokens, MaxBdnTokens)}

DefaultArgv ==
    [help |-> "absent", verbose |-> FALSE, configuration |-> <<>>,
     frameworks |-> <<"netcoreapp3.0", "netcoreapp2.2">>,
     incremental |-> None, enable_pmc |-> FALSE, category |-> None,
     filter |-> <<>>, corerun |-> None, cli |-> None,
     bdn_arguments |-> <<>>]

FrameworkArgvs ==
    {[DefaultArgv EXCEPT !.frameworks = f, !.incremental = inc, !.help = h] :
        f \in FrameworkInputs, inc \in IncrementalInputs,
        h \in HelpPositions}

ConfigurationArgvs ==
    {[DefaultArgv EXCEPT !.configuration = c, !.verbose = v, !.help = h,
                         !.frameworks = <<"netcoreapp3.0">>] :
        c \in ConfigurationInputs, v \in BOOLEAN, h \in HelpPositions}

RunArgvs ==
    {[DefaultArgv EXCEPT !.category = c, !.corerun = cr, !.cli = cl,
                         !.enable_pmc = pmc, !.filter = f,
                         !.bdn_arguments = b,
                         !.frameworks = <<"netcoreapp3.0">>] :
        c \in CategoryInputs, cr \in FileInputs, cl \in FileInputs,
        pmc \in BOOLEAN, f \in FilterInputs, b \in BdnInputs}

Platforms == {"win32", "linux"}

\* The hosts explored: the platform matters to -f only.
Scenarios ==
    (FrameworkArgvs \X Platforms) \cup
    ((ConfigurationArgvs \cup RunArgvs) \X {"linux"})

(***************************************************************************)
(* __process_arguments: parser.parse_args(args).  argparse handles the     *)
(* options in command-line order and exits at the first it rejects (or at  *)
(* -h); a missing required option is reported once all were accepted.      *)
(***************************************************************************)
NoError == [option |-> None, message |-> None, listed |-> <<>>]

Rejections(a, plat) ==
    (IF configuration_option(a.configuration).ok THEN {}
     ELSE {[option |-> "-c/--configuration",
            message |-> configuration_option(a.configuration).message,
            listed |-> <<>>]})
    \cup
    (IF a.frameworks = <<>> THEN {}
     ELSE {[option |-> "-f/--frameworks", message |-> r.message,
            listed |-> r.listed] :
              r \in {q \in frameworks_option(a.frameworks, plat) : ~q.ok}})
    \cup
    (IF incremental_option(a.incremental).ok THEN {}
     ELSE {[option |-> "--incremental", message |-> "invalid choice",
            listed |-> <<>>]})
    \cup
    (IF category_option(a.category).ok THEN {}
     ELSE {[option |-> "--category", message |-> "invalid choice",
            listed |-> <<>>]})
    \cup
    (IF file_option(a.corerun).ok THEN {}
     ELSE {[option |-> "--corerun", message |-> "does not exist",
            listed |-> <<>>]})
    \cup
    (IF file_option(a.cli).ok THEN {}
     ELSE {[option |-> "--cli", message |-> "does not exist",
            listed |-> <<>>]})

Namespaces(a, plat) ==
    {[verbose |-> a.verbose,
      configuration |-> configuration_option(a.configuration).value,
      frameworks |-> f.value,
      incremental |-> incremental_option(a.incremental).value,
      enable_pmc |-> a.enable_pmc,
      category |-> category_option(a.category).value,
      filter |-> a.filter,
      corerun |-> file_option(a.corerun).value,
      cli |-> file_option(a.cli).value,
      bdn_arguments |-> a.bdn_arguments] :
        f \in frameworks_option(a.frameworks, plat)}

HelpExit ==
    [exit |-> TRUE, status |-> 0,
     error |-> [option |-> "-h", message |-> "help", listed |-> <<>>]]

parse_args(a, plat) ==
    IF a.help = "first" THEN {HelpExit}
    ELSE IF Rejections(a, plat) # {}
    THEN {[exit |-> TRUE, status |-> 2, error |-> e] :
            e \in Rejections(a, plat)}
    ELSE IF a.help = "last" THEN {HelpExit}
    ELSE IF a.frameworks = <<>>
    THEN {[exit |-> TRUE, status |-> 2,
           error |-> [option |-> "-f/--frameworks",
                      message |-> "required", listed |-> <<>>]]}
    ELSE {[exit |-> FALSE, namespace |-> ns] : ns \in Namespaces(a, plat)}

(***************************************************************************)
(* The argument group __main hands to run().                               *)
(***************************************************************************)
Counters == "BranchMispredictions+CacheMisses+InstructionRetired"

run_args_filter_first(ns) ==
    <<"--">>
    \o (IF ns.filter # <<>> /\ ns.filter[1] # <<>>
        THEN <<"--filter">> \o ns.filter[1] ELSE <<>>)
    \o (IF ns.category # None THEN <<"--allCategories", ns.category>>
        ELSE <<>>)
    \o (IF ns.corerun # None THEN <<"--coreRun", ns.corerun>> ELSE <<>>)
    \o (IF ns.cli # None THEN <<"--cli", ns.cli>> ELSE <<>>)
    \o (IF ns.enable_pmc THEN <<"--counters", Counters>> ELSE <<>>)
    \o (IF ns.bdn_arguments # <<>> /\ ns.bdn_arguments[1] # <<>>
        THEN ns.bdn_arguments[1] ELSE <<>>)

run_args(ns) ==
    <<"--">>
    \o (IF ns.category # None THEN <<"--allCategories", ns.category>>
        ELSE <<>>)
    \o (IF ns.corerun # None THEN <<"--coreRun", ns.corerun>> ELSE <<>>)
    \o (IF ns.cli # None THEN <<"--cli", ns.cli>> ELSE <<>>)
    \o (IF ns.enable_pmc THEN <<"--counters", Counters>> ELSE <<>>)
    \o (IF ns.filter # <<>> /\ ns.filter[1] # <<>>
        THEN <<"--filter">> \o ns.filter[1] ELSE <<>>)
    \o (IF ns.bdn_arguments # <<>> /\ ns.bdn_arguments[1] # <<>>
        THEN ns.bdn_arguments[1] ELSE <<>>)

(***************************************************************************)
(* Collaborators.  Each call is recorded with what it was given and how    *)
(* it ended.                                                               *)
(***************************************************************************)
Call(stage, target, configuration, frameworks, extra, verbose, existed, outcome) ==
    [stage |-> stage, target |-> target, configuration |-> configuration,
     frameworks |-> frameworks, extra |-> extra, verbose |-> verbose,
     existed |-> existed, outcome |-> outcome]

\* What a dotnet invocation can end in: success, a non-zero exit
\* (CalledProcessError), an OS error, anything else.
ProcessOutcomes == {"ok", "CalledProcessError", "IOError", "Exception"}

\* validate_supported_runtime: returns, or raises RuntimeError.
RuntimeOutcomes == {"ok", "Exception"}

\* setup_loggers: returns, or fails to open its log file.
LoggerOutcomes == {"ok", "IOError"}

\* remove_directory: a directory that is absent is left alone, one that is
\* present is removed unless the removal fails.
remove_directory(existed) ==
    IF existed THEN {"ok", "IOError"} ELSE {"ok"}

packages == "<repo>/packages"

binary_folders ==
    <<packages, "<repo>/src/benchmarks/micro/bin",
      "<repo>/src/benchmarks/micro/obj">>

build_entry_never_clean(incremental) == "restore"

\* build(): the clean loop runs only under incremental == 'no'.
build_entry(incremental) ==
    IF incremental = "no" THEN "remove_directory" ELSE "restore"

(***************************************************************************)
(* __main.                                                                 *)
(***************************************************************************)
Init ==
    /\ \E s \in Scenarios : argv = s[1] /\ platform = s[2]
    /\ pc = "validate_supported_runtime"
    /\ args = <<>>
    /\ k = 1
    /\ i = 1
    /\ calls = <<>>
    /\ exc = None
    /\ exit_status = <<>>
    /\ parser_error = NoError
    /\ errors = <<>>
    /\ ret = <<>>

\* Where control goes when a call ended in outcome: on, or to the except
\* clauses of __main with the exception raised.
Continue(outcome, next) ==
    /\ pc' = IF outcome = "ok" THEN next ELSE "except"
    /\ exc' = IF outcome = "ok" THEN exc ELSE outcome

validate_supported_runtime ==
    /\ pc = "validate_supported_runtime"
    /\ \E outcome \in RuntimeOutcomes : Continue(outcome, "process_arguments")
    /\ UNCHANGED <<argv, platform, args, k, i, calls, exit_status,
                   parser_error, errors, ret>>

process_arguments ==
    /\ pc = "process_arguments"
    /\ \E r \in parse_args(argv, platform) :
        IF r.exit
        THEN /\ pc' = "except"
             /\ exc' = "SystemExit"
             /\ exit_status' = <<r.status>>
             /\ parser_error' = r.error
             /\ args' = args
        ELSE /\ pc' = "setup_loggers"
             /\ args' = <<r.namespace>>
             /\ UNCHANGED <<exc, exit_status, parser_error>>
    /\ UNCHANGED <<argv, platform, k, i, calls, errors, ret>>

setup_loggers ==
    /\ pc = "setup_loggers"
    /\ \E outcome \in LoggerOutcomes : Continue(outcome, "info")
    /\ UNCHANGED <<argv, platform, args, k, i, calls, exit_status,
                   parser_error, errors, ret>>

\* dotnet.info(verbose), then the entry of build().
info ==
    /\ pc = "info"
    /\ \E outcome \in ProcessOutcomes :
        /\ calls' = Append(calls, Call("info", None, <<>>, <<>>, <<>>,
                                       args[1].verbose, FALSE, outcome))
        /\ Continue(outcome, build_entry(args[1].incremental))
    /\ UNCHANGED <<argv, platform, args, k, i, exit_status, parser_error,
                   errors, ret>>

\* One pass of "for binary_folder in binary_folders".
clean ==
    /\ pc = "remove_directory"
    /\ \E existed \in BOOLEAN : \E outcome \in remove_directory(existed) :
        /\ calls' = Append(calls, Call("remove_directory", binary_folders[k],
                                       <<>>, <<>>, <<>>, FALSE, existed,
                                       outcome))
        /\ Continue(outcome, IF k < Len(binary_folders)
                             THEN "remove_directory" ELSE "restore")
    /\ k' = k + 1
    /\ UNCHANGED <<argv, platform, args, i, exit_status, parser_error,
                   errors, ret>>

restore_swallowing_failure ==
    /\ pc = "restore"
    /\ \E outcome \in ProcessOutcomes :
        /\ calls' = Append(calls, Call("restore", packages, <<>>, <<>>, <<>>,
                                       args[1].verbose, FALSE, outcome))
        /\ Continue("ok", "build")
    /\ UNCHANGED <<argv, platform, args, k, i, exit_status, parser_error,
                   errors, ret>>

\* BENCHMARKS_CSPROJ.restore(packages_path=packages, verbose=verbose)
restore ==
    /\ pc = "restore"
    /\ \E outcome \in ProcessOutcomes :
        /\ calls' = Append(calls, Call("restore", packages, <<>>, <<>>, <<>>,
                                       args[1].verbose, FALSE, outcome))
        /\ Continue(outcome, "build")
    /\ UNCHANGED <<argv, platform, args, k, i, exit_status, parser_error,
                   errors, ret>>

\* BENCHMARKS_CSPROJ.build(configuration, frameworks, verbose); build()
\* returns and the run loop starts (frameworks is never empty).
build ==
    /\ pc = "build"
    /\ \E outcome \in ProcessOutcomes :
        /\ calls' = Append(calls, Call("build", None, args[1].configuration,
                                       args[1].frameworks, <<>>,
                                       args[1].verbose, FALSE, outcome))
        /\ Continue(outcome, "run")
    /\ UNCHANGED <<argv, platform, args, k, i, exit_status, parser_error,
                   errors, ret>>

\* One pass of "for framework in frameworks".
run ==
    /\ pc = "run"
    /\ \E outcome \in ProcessOutcomes :
        /\ calls' = Append(calls, Call("run", args[1].frameworks[i],
                                       args[1].configuration, <<>>,
                                       run_args(args[1]), args[1].verbose,
                                       FALSE, outcome))
        /\ Continue(outcome, IF i < Len(args[1].frameworks)
                             THEN "run" ELSE "return")
    /\ i' = i + 1
    /\ UNCHANGED <<argv, platform, args, k, exit_status, parser_error,
                   errors, ret>>

\* return 0
return_0 ==
    /\ pc = "return"
    /\ pc' = "done"
    /\ ret' = <<0>>
    /\ UNCHANGED <<argv, platform, args, k, i, calls, exc, exit_status,
                   parser_error, errors>>

\* What each except clause sends to getLogger().error.
logged(e) ==
    CASE e = "CalledProcessError" -> <<"Command exited with status">>
      [] e = "IOError" -> <<"I/O error">>
      [] e = "SystemExit" -> <<>>
      [] OTHER -> <<"Unexpected error", "traceback">>

except_return_io_ok(e) == IF e = "IOError" THEN 0 ELSE 1

\* The value __main returns once an except clause ran.
except_return(e) == 1

\* The except clauses, then return 1.
except_clauses ==
    /\ pc = "except"
    /\ pc' = "done"
    /\ errors' = errors \o logged(exc)
    /\ ret' = <<except_return(exc)>>
    /\ UNCHANGED <<argv, platform, args, k, i, calls, exc, exit_status,
                   parser_error>>

Next ==
    \/ validate_supported_runtime
    \/ process_arguments
    \/ setup_loggers
    \/ info
    \/ clean
    \/ restore
    \/ build
    \/ run
    \/ return_0
    \/ except_clauses

Spec == Init /\ [][Next]_vars

(***************************************************************************)
(* Properties.                                                             *)
(***************************************************************************)
CallsOf(stage) == SelectSeq(calls, LAMBDA c : c.stage = stage)

Failed(n) == calls[n].outcome # "ok"

RunTargets == [n \in 1..Len(CallsOf("run")) |-> CallsOf("run")[n].target]

RECURSIVE FirstSeen(_)
FirstSeen(values) ==
    IF values = <<>> THEN <<>>
    ELSE LET front == FirstSeen(SubSeq(values, 1, Len(values) - 1))
             last == values[Len(values)]
         IN  IF last \in ToSet(front) THEN front ELSE Append(front, last)

Unsupported(values) ==
    {v \in ToSet(values) :
        \A n \in 1..Len(get_supported_target_frameworks(platform)) :
            get_supported_target_frameworks(platform)[n] # v}

\* C1: once a stage (a directory removal, Restore, Build, a Run) has ended in
\* a non-success outcome, no later stage is invoked: a failed invocation is
\* the last invocation of the run.
C1_ShortCircuit ==
    \A n \in 1..Len(calls) : Failed(n) => n = Len(calls)

\* A run ended after Run failed for a target that was not the last one.
C1_Witness ==
    /\ pc = "done"
    /\ calls # <<>>
    /\ calls[Len(calls)].stage = "run"
    /\ Failed(Len(calls))
    /\ Len(CallsOf("run")) < Len(args[1].frameworks)

\* C2: in a run in which all stages succeed, Build is invoked exactly once
\* with all validated targets and Run exactly once per distinct target, in
\* the order in which the targets first appeared in the --frameworks input.
C2_RunInFirstSeenOrder ==
    (pc = "done" /\ ret = <<0>>) =>
        /\ Len(CallsOf("build")) = 1
        /\ ToSet(CallsOf("build")[1].frameworks) = ToSet(argv.frameworks)
        /\ RunTargets = FirstSeen(argv.frameworks)

AllStagesSucceeded ==
    /\ args # <<>>
    /\ \A n \in 1..Len(calls) : ~Failed(n)
    /\ Len(CallsOf("restore")) = 1
    /\ Len(CallsOf("build")) = 1
    /\ Len(CallsOf("run")) = Len(args[1].frameworks)

\* C3: __main returns 0 when every stage completed successfully, and 1 when
\* a validation error, an external-process failure, an I/O failure or any
\* other unexpected error occurred.
C3_ExitCode ==
    pc = "done" =>
        /\ AllStagesSucceeded => ret = <<0>>
        /\ (\/ exc \in {"CalledProcessError", "IOError", "Exception"}
            \/ exc = "SystemExit" /\ exit_status = <<2>>
            \/ \E n \in 1..Len(calls) : Failed(n)) => ret = <<1>>

\* A run ended by an I/O failure of a directory removal.
C3_Witness ==
    /\ pc = "done"
    /\ exc = "IOError"
    /\ calls # <<>>
    /\ calls[Len(calls)].stage = "remove_directory"
    /\ ret = <<1>>

\* C4: an argument-parsing early exit the user asked for (help) logs no
\* error and makes __main return 0.
C4_HelpExitReturnsZero ==
    (pc = "done" /\ exc = "SystemExit" /\ exit_status = <<0>>) =>
        /\ errors = <<>>
        /\ ret = <<0>>

\* C5: under incremental 'no' the removal of packages, bin and obj has been
\* attempted and has completed, in that order, before Restore is invoked,
\* and a directory that was absent is no error; otherwise no directory is
\* ever removed.
C5_CleanBeforeRestore ==
    /\ \A n \in 1..Len(calls) :
        (calls[n].stage = "restore" /\ argv.incremental = "no") =>
            /\ n > Len(binary_folders)
            /\ \A m \in 1..Len(binary_folders) :
                \E j \in 1..(n - 1) :
                    /\ calls[j].stage = "remove_directory"
                    /\ calls[j].target = binary_folders[m]
                    /\ ~Failed(j)
    /\ \A n \in 1..Len(calls) :
        (calls[n].stage = "remove_directory" /\ ~calls[n].existed) =>
            ~Failed(n)
    /\ argv.incremental # "no" => CallsOf("remove_directory") = <<>>

\* Restore was invoked under incremental 'no' after removals of which one
\* found its directory absent and one found it present.
C5_Witness ==
    /\ argv.incremental = "no"
    /\ CallsOf("restore") # <<>>
    /\ \E m, n \in 1..Len(calls) :
        /\ calls[m].stage = "remove_directory" /\ ~calls[m].existed
        /\ calls[n].stage = "remove_directory" /\ calls[n].existed

Group(present, flag, payload) ==
    IF present THEN <<flag>> \o payload ELSE <<>>

\* C6: the argument group handed to Run is '--', then the category flag and
\* value, the --coreRun flag and path, the --cli flag and path, the counter
\* flag with its fixed payload, the filter flag with all patterns in input
\* order, each only if set, then the raw pass-through tokens, and nothing
\* else.
C6_RunArgsOrder ==
    \A n \in 1..Len(calls) :
        calls[n].stage = "run" =>
            calls[n].extra =
                <<"--">>
                \o Group(argv.category # None, "--allCategories",
                         <<args[1].category>>)
                \o Group(argv.corerun # None, "--coreRun",
                         <<args[1].corerun>>)
                \o Group(argv.cli # None, "--cli", <<args[1].cli>>)
                \o Group(argv.enable_pmc, "--counters",
                         <<"BranchMispredictions+CacheMisses+InstructionRetired">>)
                \o (IF argv.filter = <<>> THEN <<>>
                    ELSE Group(TRUE, "--filter", argv.filter[1]))
                \o (IF argv.bdn_arguments = <<>> THEN <<>>
                    ELSE argv.bdn_arguments[1])

\* The run of the example: category, corerun, counters, two filters and two
\* pass-through tokens.
C6_Witness ==
    /\ argv.cli = None
    /\ \E n \in 1..Len(calls) :
        /\ calls[n].stage = "run"
        /\ calls[n].extra =
            <<"--", "--allCategories", "coreclr", "--coreRun", "/cwd/corerun",
              "--counters",
              "BranchMispredictions+CacheMisses+InstructionRetired",
              "--filter", "*Sort*", "*Hash*", "--iterations", "5">>

MissingFile(p) == p # None /\ abspath(p) \notin Files

\* C7: a --corerun or --cli path that does not reference an existing file
\* fails validation before anything is invoked: no dotnet info, Restore,
\* Build, Run or directory removal ever occurs in such a run.
C7_MissingFileNoInvocation ==
    (MissingFile(argv.corerun) \/ MissingFile(argv.cli)) =>
        /\ calls = <<>>
        /\ args = <<>>
        /\ pc = "done" => ret = <<1>>

\* A run that ended on the rejection of a missing --corerun file.
C7_Witness ==
    /\ pc = "done"
    /\ MissingFile(argv.corerun)
    /\ parser_error.option = "--corerun"
    /\ ret = <<1>>

\* C8: a --frameworks input with at least one unsupported identifier fails
\* validation, and the one error reported lists every unsupported
\* identifier of the input.
C8_AllInvalidListed ==
    (Unsupported(argv.frameworks) # {} /\ argv.help # "first") =>
        /\ args = <<>>
        /\ (exc = "SystemExit" /\ parser_error.option = "-f/--frameworks")
            => Unsupported(argv.frameworks) \subseteq ToSet(parser_error.listed)

\* C9: a --frameworks input of supported identifiers only is accepted with
\* no error, and the stored collection holds each distinct identifier of
\* the input exactly once.
C9_Deduplicated ==
    (argv.frameworks # <<>> /\ Unsupported(argv.frameworks) = {}) =>
        /\ parser_error.option # "-f/--frameworks"
        /\ args # <<>> =>
            /\ ToSet(args[1].frameworks) = ToSet(argv.frameworks)
            /\ \A m, n \in 1..Len(args[1].frameworks) :
                m # n => args[1].frameworks[m] # args[1].frameworks[n]

\* An identifier given twice is stored once.
C9_Witness ==
    /\ argv.frameworks = <<"netcoreapp2.2", "netcoreapp3.0", "netcoreapp2.2">>
    /\ args # <<>>
    /\ Len(args[1].frameworks) = 2

SameIgnoringCase(a, b) ==
    /\ Len(a) = Len(b)
    /\ \A n \in 1..Len(a) :
        \/ a[n] = b[n]
        \/ upper_char(a[n]) = b[n]
        \/ a[n] = upper_char(b[n])

Canonical(c) == {m \in {Release, Debug} : SameIgnoringCase(c, m)}

\* C10: a configuration equal, ignoring case, to Release or Debug is accepted
\* and stored, and passed to Build and Run, in the casing of that member;
\* any other configuration fails validation; an omitted one yields Release.
C10_ConfigurationCanonical ==
    /\ args # <<>> =>
        IF argv.configuration = <<>>
        THEN args[1].configuration = Release
        ELSE args[1].configuration \in Canonical(argv.configuration[1])
    /\ (argv.configuration # <<>> /\ Canonical(argv.configuration[1]) # {})
        => parser_error.option # "-c/--configuration"
    /\ (argv.configuration # <<>> /\ Canonical(argv.configuration[1]) = {}
        /\ argv.help # "first" /\ exc = "SystemExit")
        => parser_error.option = "-c/--configuration"
    /\ \A n \in 1..Len(calls) :
        calls[n].stage \in {"build", "run"} =>
            calls[n].configuration = args[1].configuration

\* RELEASE was given and Run received Release.
C10_Witness ==
    /\ argv.configuration = <<<<"R", "E", "L", "E", "A", "S", "E">>>>
    /\ \E n \in 1..Len(calls) :
        calls[n].stage = "run" /\ calls[n].configuration = Release

====
